---- MODULE Spec2Model ----
(***************************************************************************)
(* Model of the scrambler backend (src/app.py): the three substitution     *)
(* strategies, the per-record processing of scramble_file and the request  *)
(* handler scramble with its validation.                                   *)
(*                                                                         *)
(* Text is a sequence of characters; a character is a one-character string *)
(* or, for a character outside ASCII, the name of its code point.          *)
(* Python's None is the empty tuple and a present value x is <<x>>.        *)
(***************************************************************************)
EXTENDS Integers, Sequences, FiniteSets, TLC

\* ------------------------------------------------------------------ bounds
\* longest line of a TXT file
MaxLen == 2
\* start_pos and end_pos range over 0..MaxPos
MaxPos == 2
\* records read from the input stream in one run
MaxRecords == 2
\* fields of a CSV row
MaxFields == 2
\* longest text handed to a strategy called alone
MaxText == 1

\* ------------------------------------------------------------- characters
None == <<>>
Some(x) == <<x>>

\* string.ascii_letters (a sample of the 52 letters, both cases)
ascii_letters == {"a", "Z"}
\* string.digits
digits == {"0", "1", "2", "3", "4", "5", "6", "7", "8", "9"}
\* characters outside ASCII: a letter (e with acute), a decimal digit
\* (Arabic-Indic three), a digit that is no decimal (superscript two), and
\* a numeric character that is neither (vulgar fraction one half)
NonAsciiLetter == "U+00E9"
NonAsciiDecimal == "U+0663"
SuperscriptTwo == "U+00B2"
OneHalf == "U+00BD"
\* ASCII characters that are neither letters, digits nor the hyphen
Specials == {"!", " "}
Chars ==
    ascii_letters \cup digits \cup {"-"} \cup Specials
        \cup {NonAsciiLetter, NonAsciiDecimal, SuperscriptTwo, OneHalf}

\* str.isalpha, str.isdigit, str.isalnum on the characters above
isalpha(c) == c \in ascii_letters \cup {NonAsciiLetter}
isdigit(c) == c \in digits \cup {NonAsciiDecimal, SuperscriptTwo}
isalnum(c) == isalpha(c) \/ isdigit(c) \/ c = OneHalf

\* int(c) of a character with isdigit(c): its value, or None where int()
\* raises ValueError (a digit that is no decimal)
DigitValue ==
    [c \in digits \cup {NonAsciiDecimal} |->
        CASE c = "0" -> 0 [] c = "1" -> 1 [] c = "2" -> 2 [] c = "3" -> 3
          [] c = "4" -> 4 [] c = "5" -> 5 [] c = "6" -> 6 [] c = "7" -> 7
          [] c = "8" -> 8 [] c = "9" -> 9 [] c = NonAsciiDecimal -> 3]
int(c) == IF c \in DOMAIN DigitValue THEN Some(DigitValue[c]) ELSE None
\* str(n) of n in 0..9
str(n) == CHOOSE c \in digits : DigitValue[c] = n

\* --------------------------------------------------------------- strategies
\* A strategy's result: the pieces appended to `result`, one per character
\* of the text, in order; or the exception that left the loop.
Returned(pieces) == [exc |-> "None", pieces |-> pieces]
Raised(exc) == [exc |-> exc, pieces |-> <<>>]
NoCall == [exc |-> "NoCall", pieces |-> <<>>]

RECURSIVE Flatten(_)
Flatten(pieces) ==
    IF pieces = <<>> THEN <<>> ELSE Head(pieces) \o Flatten(Tail(pieces))

\* mutant: the special character is kept
scramble_special_char_kept(c) == c

scramble_special_char(c) ==
    IF c \in ascii_letters \/ isdigit(c) \/ c = "-" THEN c ELSE " "

\* one pass of simple_replacement's loop: the piece appended for c, or None
\* where `result += None` raises TypeError
simple_piece(c, data_type, repChar, repDig) ==
    IF isalpha(c) /\ data_type \in {"String", "Both"} THEN repChar
    ELSE IF isdigit(c) /\ data_type \in {"Number", "Both"} THEN repDig
    ELSE IF c # "-" /\ ~isalnum(c) THEN Some(<<scramble_special_char(c)>>)
    ELSE Some(<<c>>)

RECURSIVE simple_loop(_, _, _, _, _)
simple_loop(text, data_type, repChar, repDig, pieces) ==
    IF text = <<>> THEN Returned(pieces)
    ELSE LET p == simple_piece(Head(text), data_type, repChar, repDig)
         IN  IF p = None THEN Raised("TypeError")
             ELSE simple_loop(Tail(text), data_type, repChar, repDig,
                              Append(pieces, p[1]))

\* the set holding simple_replacement's one result
simple_replacement(text, data_type, repChar, repDig) ==
    {simple_loop(text, data_type, repChar, repDig, <<>>)}

\* mutant: random_char_replacement without the data-type filter
random_pieces_unfiltered(c, data_type) ==
    IF isalpha(c) THEN {<<l>> : l \in ascii_letters}
    ELSE IF isdigit(c) THEN {<<d>> : d \in digits}
    ELSE IF c # "-" /\ ~isalnum(c) THEN {<<scramble_special_char(c)>>}
    ELSE {<<c>>}

\* the pieces random_char_replacement's loop can append for c
random_pieces(c, data_type) ==
    IF isalpha(c) /\ data_type \in {"String", "Both"}
        THEN {<<l>> : l \in ascii_letters}
    ELSE IF isdigit(c) /\ data_type \in {"Number", "Both"}
        THEN {<<d>> : d \in digits}
    ELSE IF c # "-" /\ ~isalnum(c) THEN {<<scramble_special_char(c)>>}
    ELSE {<<c>>}

RECURSIVE random_loop(_, _, _)
random_loop(text, data_type, pieces) ==
    IF text = <<>> THEN {Returned(pieces)}
    ELSE UNION {random_loop(Tail(text), data_type, Append(pieces, p)) :
                    p \in random_pieces(Head(text), data_type)}

random_char_replacement(text, data_type) == random_loop(text, data_type, <<>>)

\* mutant: random.randint(0, 9)
randint_0_9 == 0..9

\* random.randint(1, 9)
randint_1_9 == 1..9

\* the pieces incremental_scramble's loop can append for c; None where
\* int(c) raises ValueError
incremental_pieces(c, data_type) ==
    IF isdigit(c) /\ data_type \in {"Number", "Both"}
        THEN IF int(c) = None THEN {None}
             ELSE {Some(<<str((int(c)[1] + r) % 10)>>) : r \in randint_1_9}
    ELSE IF c # "-" /\ ~isalnum(c) THEN {Some(<<scramble_special_char(c)>>)}
    ELSE {Some(<<c>>)}

RECURSIVE incremental_loop(_, _, _)
incremental_loop(text, data_type, pieces) ==
    IF text = <<>> THEN {Returned(pieces)}
    ELSE UNION {IF p = None THEN {Raised("ValueError")}
                ELSE incremental_loop(Tail(text), data_type,
                                      Append(pieces, p[1])) :
                    p \in incremental_pieces(Head(text), data_type)}

incremental_scramble(text, data_type) == incremental_loop(text, data_type, <<>>)

\* the dictionary scramble_methods: the results of the function a method
\* names, with the lambda's repChar and repDig bound for "simple"
Methods == {"simple", "random", "incremental"}
scramble_methods(method, repChar, repDig, text, data_type) ==
    CASE method = "simple" -> simple_replacement(text, data_type, repChar, repDig)
      [] method = "random" -> random_char_replacement(text, data_type)
      [] method = "incremental" -> incremental_scramble(text, data_type)

\* ------------------------------------------------------------ scramble_file
\* Python's s[lo:hi]: an absent bound is None, a negative one counts from
\* the end, and both are clipped to the string
ClipIndex(k, n) ==
    IF k < 0 THEN (IF k + n < 0 THEN 0 ELSE k + n) ELSE (IF k > n THEN n ELSE k)
Slice(s, lo, hi) ==
    LET a == IF lo = None THEN 0 ELSE ClipIndex(lo[1], Len(s))
        b == IF hi = None THEN Len(s) ELSE ClipIndex(hi[1], Len(s))
    IN  SubSeq(s, a + 1, b)

\* line.rstrip('\n')
RECURSIVE rstrip(_)
rstrip(s) ==
    IF s # <<>> /\ s[Len(s)] = "\n" THEN rstrip(SubSeq(s, 1, Len(s) - 1)) ELSE s

\* What one pass of a record loop does: write a record, or leave the loop
\* with the exception the strategy raised. `text` is the argument of the
\* strategy call and `result` what the call did (NoCall: no call was made).
Write(rec, text, result) == [write |-> Some(rec), text |-> text, result |-> result]
Abort(text, result) == [write |-> None, text |-> text, result |-> result]

\* mutant: the header rule without its test of the line number
txt_pass_header_on_every_line(i, raw, start_pos, end_pos, data_type, has_header, method, repChar, repDig) ==
    LET line == rstrip(raw) IN
    IF has_header THEN {Write(line \o <<"\n">>, <<>>, NoCall)}
    ELSE IF Len(line) < start_pos THEN {Write(line \o <<"\n">>, <<>>, NoCall)}
    ELSE LET actual_end ==
                 LET e == IF end_pos # None THEN end_pos[1] ELSE Len(line)
                 IN  IF e < Len(line) THEN e ELSE Len(line)
             text == Slice(line, Some(start_pos - 1), Some(actual_end))
         IN  {IF r.exc # "None" THEN Abort(text, r)
              ELSE Write(Slice(line, None, Some(start_pos - 1))
                             \o Flatten(r.pieces)
                             \o Slice(line, Some(actual_end), None)
                             \o <<"\n">>, text, r) :
                  r \in scramble_methods(method, repChar, repDig, text, data_type)}

\* the pass of the TXT loop for line number i, read as `raw`
txt_pass(i, raw, start_pos, end_pos, data_type, has_header, method, repChar, repDig) ==
    LET line == rstrip(raw) IN
    IF i = 0 /\ has_header THEN {Write(line \o <<"\n">>, <<>>, NoCall)}
    ELSE IF Len(line) < start_pos THEN {Write(line \o <<"\n">>, <<>>, NoCall)}
    ELSE LET actual_end ==
                 LET e == IF end_pos # None THEN end_pos[1] ELSE Len(line)
                 IN  IF e < Len(line) THEN e ELSE Len(line)
             text == Slice(line, Some(start_pos - 1), Some(actual_end))
         IN  {IF r.exc # "None" THEN Abort(text, r)
              ELSE Write(Slice(line, None, Some(start_pos - 1))
                             \o Flatten(r.pieces)
                             \o Slice(line, Some(actual_end), None)
                             \o <<"\n">>, text, r) :
                  r \in scramble_methods(method, repChar, repDig, text, data_type)}

\* mutant: column_index = start_pos
csv_pass_column_off_by_one(row_index, row, start_pos, data_type, has_header, method, repChar, repDig) ==
    LET column_index == start_pos
    IN  IF has_header /\ row_index = 0 THEN {Write(row, <<>>, NoCall)}
        ELSE IF Len(row) > column_index
            THEN LET text == row[column_index + 1]
                 IN  {IF r.exc # "None" THEN Abort(text, r)
                      ELSE Write([row EXCEPT ![column_index + 1] = Flatten(r.pieces)],
                                 text, r) :
                          r \in scramble_methods(method, repChar, repDig, text, data_type)}
        ELSE {Write(row, <<>>, NoCall)}

\* the pass of the CSV loop for row number row_index
csv_pass(row_index, row, start_pos, data_type, has_header, method, repChar, repDig) ==
    LET column_index == start_pos - 1
    IN  IF has_header /\ row_index = 0 THEN {Write(row, <<>>, NoCall)}
        ELSE IF Len(row) > column_index
            THEN LET text == row[column_index + 1]
                 IN  {IF r.exc # "None" THEN Abort(text, r)
                      ELSE Write([row EXCEPT ![column_index + 1] = Flatten(r.pieces)],
                                 text, r) :
                          r \in scramble_methods(method, repChar, repDig, text, data_type)}
        ELSE {Write(row, <<>>, NoCall)}

\* ------------------------------------------------------------------- state
VARIABLES
    pc,           \* "request", "loop" (at the head of the record loop), "body",
                  \* "responded"; "call", "returned" (a strategy alone)
    source_file,  \* request.files: "present", "noname" (empty filename), "absent"
    method,       \* the URL's <method>
    file_type,    \* form field file_type
    start_pos,    \* form field start_pos as int() reads it; None: int() raises
    end_pos,      \* form field end_pos; None: absent or empty
    data_type,    \* form field data_type
    has_header,   \* form field contains_header = "true"
    repChar,      \* form field repChar; None: absent
    repDig,       \* form field repDig; None: absent
    saved,        \* the upload was saved to UPLOAD_FOLDER
    out_open,     \* the output file was created
    fin_more,     \* the input stream may hold another record
    nread,        \* records read from the input so far
    nwritten,     \* records written to the output so far
    record,       \* the record read last
    written,      \* the record the current pass wrote; None: nothing yet
    text,         \* the argument of the last strategy call
    result,       \* what the last strategy call did
    status,       \* the response's status code; 0: none yet
    message       \* the response's error message; "": none

request == <<source_file, method, file_type, start_pos, end_pos, data_type,
             has_header, repChar, repDig>>
files == <<saved, out_open, fin_more, nread, nwritten, record, written>>
call == <<text, result>>
vars == <<pc, request, files, call, status, message>>

\* ------------------------------------------------------------------ inputs
RECURSIVE SeqsUpTo(_, _)
SeqsUpTo(S, n) ==
    IF n = 0 THEN {<<>>}
    ELSE LET shorter == SeqsUpTo(S, n - 1)
         IN  shorter \cup {Append(s, x) : s \in shorter, x \in S}

FileTypes == {"TXT", "CSV", "XML"}
DataTypes == {"String", "Number", "Both"}
UrlMethods == Methods \cup {"reverse"}
Positions == 0..MaxPos
RepChars == {None, Some(<<"X">>), Some(<<"X", "Y">>)}
RepDigs == {None, Some(<<"9">>)}
\* the characters of the lines and of the fields of the input files
LineChars == {"a", "5"}
Fields == {<<>>, <<"a">>, <<"5">>, <<"a", "5">>}
Lines == SeqsUpTo(LineChars, MaxLen)
\* a line as the file iterator yields it: with its terminator, or, the
\* last line of a file that does not end in one, without
RawLines == {Append(l, "\n") : l \in Lines} \cup (Lines \ {<<>>})
Rows == SeqsUpTo(Fields, MaxFields)
\* the texts a strategy is called on alone
Texts == SeqsUpTo(Chars, MaxText)

NoFiles ==
    /\ saved = FALSE /\ out_open = FALSE /\ fin_more = FALSE
    /\ nread = 0 /\ nwritten = 0 /\ record = <<>> /\ written = None

Init ==
    /\ pc = "request"
    /\ source_file \in {"present", "noname", "absent"}
    /\ method \in UrlMethods
    /\ file_type \in FileTypes
    /\ start_pos \in {None} \cup {Some(n) : n \in Positions}
    /\ end_pos \in {None} \cup {Some(n) : n \in Positions}
    /\ data_type \in DataTypes
    /\ has_header \in BOOLEAN
    /\ repChar \in (IF method = "simple" THEN RepChars ELSE {None})
    /\ repDig \in (IF method = "simple" THEN RepDigs ELSE {None})
    /\ NoFiles
    /\ text = <<>> /\ result = NoCall
    /\ status = 0 /\ message = ""

\* ------------------------------------------------------------ the handler
\* mutant: the validation without its test of Incremental's data type
Validation_without_incremental_test(ftype, spos, epos, meth, dtype) ==
    IF ftype = "CSV" /\ spos < 1 THEN "CSV column number must be at least 1."
    ELSE IF ftype = "TXT" /\ epos # None /\ spos > epos[1]
        THEN "Start position must be less than or equal to end position."
    ELSE IF meth \notin Methods THEN "Unknown scramble method"
    ELSE ""

\* the validation of scramble: the error message, or "" when the request passes
Validation(ftype, spos, epos, meth, dtype) ==
    IF ftype = "CSV" /\ spos < 1 THEN "CSV column number must be at least 1."
    ELSE IF ftype = "TXT" /\ epos # None /\ spos > epos[1]
        THEN "Start position must be less than or equal to end position."
    ELSE IF meth = "incremental" /\ dtype # "Number"
        THEN "Incremental scramble supports only Number data type."
    ELSE IF meth \notin Methods THEN "Unknown scramble method"
    ELSE ""

\* end_pos as scramble reads it: only for TXT
EndPosArg(ftype, epos) == IF ftype = "TXT" /\ epos # None THEN epos ELSE None

Respond(code, msg) ==
    /\ pc' = "responded"
    /\ status' = code
    /\ message' = msg

\* scramble, from the request to the response or to the record loop of
\* scramble_file
scramble ==
    /\ pc = "request"
    /\ UNCHANGED <<request, call>>
    /\ IF source_file = "absent"
         THEN Respond(400, "Missing file input") /\ UNCHANGED files
       ELSE IF source_file = "noname"
         THEN Respond(400, "Missing file name") /\ UNCHANGED files
       ELSE IF start_pos = None
         THEN Respond(500, "Error processing file") /\ UNCHANGED files
       ELSE LET err == Validation(file_type, start_pos[1],
                                  EndPosArg(file_type, end_pos), method, data_type)
            IN  IF err # "" THEN Respond(400, err) /\ UNCHANGED files
                ELSE /\ saved' = TRUE
                     /\ UNCHANGED <<nread, nwritten, record, written>>
                     /\ IF file_type \in {"TXT", "CSV"}
                          THEN /\ out_open' = TRUE
                               /\ fin_more' = TRUE
                               /\ pc' = "loop"
                               /\ UNCHANGED <<status, message>>
                          ELSE \* no branch of scramble_file opens a file, and
                               \* send_file raises FileNotFoundError
                               /\ UNCHANGED <<out_open, fin_more>>
                               /\ Respond(500, "Error processing file")

\* `for ... in enumerate(...)` takes the next record from the input
Read(rec) ==
    /\ fin_more /\ nread < MaxRecords
    /\ pc' = "body"
    /\ record' = rec
    /\ nread' = nread + 1
    /\ written' = None
    /\ text' = <<>> /\ result' = NoCall
    /\ UNCHANGED <<request, saved, out_open, nwritten, status, message>>

\* mutant: a record passed through (a header, a short line or row) is
\* skipped instead of written
Body_skipping_passthrough(p) ==
    /\ text' = p.text
    /\ result' = p.result
    /\ UNCHANGED <<request, saved, out_open, fin_more, nread, record>>
    /\ IF p.write = None
         THEN /\ UNCHANGED <<written, nwritten>>
              /\ Respond(500, "Error processing file")
         ELSE IF p.result = NoCall
         THEN /\ UNCHANGED <<written, nwritten, status, message>>
              /\ pc' = "loop"
         ELSE /\ written' = p.write
              /\ nwritten' = nwritten + 1
              /\ pc' = "loop"
              /\ UNCHANGED <<status, message>>

\* the body of a record loop: what the pass p does to the state
Body(p) ==
    /\ text' = p.text
    /\ result' = p.result
    /\ UNCHANGED <<request, saved, out_open, fin_more, nread, record>>
    /\ IF p.write = None
         THEN /\ UNCHANGED <<written, nwritten>>
              /\ Respond(500, "Error processing file")
         ELSE /\ written' = p.write
              /\ nwritten' = nwritten + 1
              /\ pc' = "loop"
              /\ UNCHANGED <<status, message>>

\* the TXT loop of scramble_file reads a line; a line without a terminator
\* is the file's last
txt_read ==
    /\ pc = "loop" /\ file_type = "TXT"
    /\ \E raw \in RawLines :
         /\ Read(raw)
         /\ fin_more' = (raw[Len(raw)] = "\n")

txt_body ==
    /\ pc = "body" /\ file_type = "TXT"
    /\ \E p \in txt_pass(nread - 1, record, start_pos[1], EndPosArg(file_type, end_pos),
                         data_type, has_header, method, repChar, repDig) :
           Body(p)

\* the CSV loop of scramble_file reads a row
csv_read ==
    /\ pc = "loop" /\ file_type = "CSV"
    /\ \E row \in Rows :
         /\ Read(row)
         /\ fin_more' = TRUE

csv_body ==
    /\ pc = "body" /\ file_type = "CSV"
    /\ \E p \in csv_pass(nread - 1, record, start_pos[1], data_type, has_header,
                         method, repChar, repDig) :
           Body(p)

\* the input is exhausted: scramble_file returns and scramble sends the file
end_of_file ==
    /\ pc = "loop"
    /\ fin_more' = FALSE
    /\ Respond(200, "")
    /\ UNCHANGED <<request, call, saved, out_open, nread, nwritten, record, written>>

Next == scramble \/ txt_read \/ txt_body \/ csv_read \/ csv_body \/ end_of_file

Spec == Init /\ [][Next]_vars

\* ------------------------------------------------------- a strategy alone
InitStrategy ==
    /\ pc = "call"
    /\ source_file = "present" /\ file_type = "TXT"
    /\ start_pos = Some(1) /\ end_pos = None /\ has_header = FALSE
    /\ method \in Methods
    /\ data_type \in DataTypes
    /\ repChar \in (IF method = "simple" THEN RepChars ELSE {None})
    /\ repDig \in (IF method = "simple" THEN RepDigs ELSE {None})
    /\ NoFiles
    /\ text \in Texts /\ result = NoCall
    /\ status = 0 /\ message = ""

Call(results) ==
    /\ pc = "call"
    /\ pc' = "returned"
    /\ result' \in results
    /\ UNCHANGED <<request, files, text, status, message>>

call_simple ==
    method = "simple" /\ Call(simple_replacement(text, data_type, repChar, repDig))
call_random ==
    method = "random" /\ Call(random_char_replacement(text, data_type))
call_incremental ==
    method = "incremental" /\ Call(incremental_scramble(text, data_type))

NextStrategy == call_simple \/ call_random \/ call_incremental

SpecStrategy == InitStrategy /\ [][NextStrategy]_vars

\* ------------------------------------------------------------------ claims
\* the input record and the output record of the pass that wrote last: a
\* line without its terminator (TXT), a row (CSV)
InRecord == IF file_type = "TXT" THEN rstrip(record) ELSE record
OutRecord ==
    IF file_type = "TXT" THEN SubSeq(written[1], 1, Len(written[1]) - 1)
    ELSE written[1]
\* a pass of the record loop has written its record
Wrote == pc \in {"loop", "responded"} /\ written # None
\* the record written is the header, passed through
HeaderPass == has_header /\ nread = 1
\* the spec's character classes (4.1): ASCII letters, ASCII digits, the hyphen
Letter(c) == c \in ascii_letters
Digit(c) == c \in digits
Other(c) == ~Letter(c) /\ ~Digit(c) /\ c # "-"
\* the strategy call returned, with one piece for each character of its text
CallReturned == result.exc = "None"

\* what the request's strategy can append for the character c; None: it raises
PiecesFor(c) ==
    CASE method = "simple" -> {simple_piece(c, data_type, repChar, repDig)}
      [] method = "random" -> {Some(p) : p \in random_pieces(c, data_type)}
      [] method = "incremental" -> incremental_pieces(c, data_type)

\* C1 (as claimed): every TXT record written for an accepted request, other
\* than a passed-through header, has the length of the input record and
\* equals it at every index below startPos-1 and from actualEnd on; a record
\* shorter than startPos is written unchanged.
C1_LineFrame ==
    (Wrote /\ file_type = "TXT" /\ ~HeaderPass) =>
        LET line == InRecord
            out == OutRecord
            e == IF EndPosArg(file_type, end_pos) # None THEN end_pos[1] ELSE Len(line)
            actualEnd == IF e < Len(line) THEN e ELSE Len(line)
        IN  /\ Len(out) = Len(line)
            /\ \A j \in 1..Len(line) :
                   (j - 1 < start_pos[1] - 1 \/ j - 1 >= actualEnd) => out[j] = line[j]
            /\ (Len(line) < start_pos[1] => out = line)

\* C2 (as claimed): a Simple request that lacks a replacement character
\* whose class the data type reaches is rejected before any record is read
\* and before any output record or output file is written.
MissingReplacement ==
    /\ method = "simple"
    /\ \/ repChar = None /\ data_type \in {"String", "Both"}
       \/ repDig = None /\ data_type \in {"Number", "Both"}
C2_MissingConfigurationRejected ==
    (/\ source_file = "present" /\ start_pos # None
     /\ file_type \in {"TXT", "CSV"} /\ MissingReplacement) =>
        /\ pc \in {"request", "responded"}
        /\ nread = 0 /\ nwritten = 0 /\ ~out_open
        /\ (pc = "responded" => status = 400)

\* C3: a request with CSV and startPos < 1, or TXT with endPos present and
\* startPos > endPos, or Incremental with a data type other than Number, is
\* answered with an error before scramble_file runs: nothing is saved, no
\* output file is made, no record is read or written.
InvalidRequest ==
    \/ file_type = "CSV" /\ start_pos # None /\ start_pos[1] < 1
    \/ file_type = "TXT" /\ start_pos # None /\ end_pos # None
           /\ start_pos[1] > end_pos[1]
    \/ method = "incremental" /\ data_type # "Number"
ValidationMessages ==
    {"CSV column number must be at least 1.",
     "Start position must be less than or equal to end position.",
     "Incremental scramble supports only Number data type."}
C3_InvalidRequestRejected ==
    InvalidRequest =>
        /\ pc \in {"request", "responded"}
        /\ ~saved /\ ~out_open /\ nread = 0 /\ nwritten = 0
        /\ (pc = "responded" =>
               /\ status \in {400, 500} /\ message # ""
               /\ (source_file = "present" /\ start_pos # None =>
                       status = 400 /\ message \in ValidationMessages))
C3_Witness ==
    /\ pc = "responded" /\ source_file = "present"
    /\ method = "incremental" /\ data_type = "String"
    /\ file_type = "TXT" /\ start_pos = Some(1) /\ end_pos = Some(2)
    /\ status = 400
    /\ message = "Incremental scramble supports only Number data type."
    /\ ~saved /\ nread = 0

\* C4 (as claimed): a request with an unknown strategy or an unknown format
\* is rejected at validation, with status 400, before scramble_file runs.
C4_UnknownVariantRejected ==
    (/\ source_file = "present" /\ start_pos # None
     /\ (method \notin Methods \/ file_type \notin {"TXT", "CSV"})) =>
        /\ pc \in {"request", "responded"}
        /\ ~saved /\ ~out_open /\ nread = 0 /\ nwritten = 0
        /\ (pc = "responded" => status = 400)

\* C5: with hasHeader, the record written for record 0 is record 0
\* itself, in both formats; the header rule reaches no later record: such a
\* record is handed to the strategy (its range in a line, its column in a
\* row) exactly when it is long enough to have the start position.
C5_HeaderPassthrough ==
    Wrote =>
        /\ HeaderPass => OutRecord = InRecord /\ result = NoCall
        /\ nread >= 2 =>
               LET rec == InRecord
                   e == IF EndPosArg(file_type, end_pos) # None
                        THEN end_pos[1] ELSE Len(rec)
                   actualEnd == IF e < Len(rec) THEN e ELSE Len(rec)
               IN  IF Len(rec) < start_pos[1]
                   THEN result = NoCall /\ OutRecord = rec
                   ELSE /\ CallReturned
                        /\ text = IF file_type = "TXT"
                                  THEN Slice(rec, Some(start_pos[1] - 1), Some(actualEnd))
                                  ELSE rec[start_pos[1]]
C5_Witness ==
    /\ Wrote /\ HeaderPass /\ file_type = "TXT"
    /\ method = "simple" /\ data_type = "Both" /\ start_pos = Some(1)
    /\ repChar = Some(<<"X">>) /\ repDig = Some(<<"9">>)
    /\ record = <<"a", "5", "\n">>
    /\ written = Some(<<"a", "5", "\n">>)

C7_RowFrame ==
    (Wrote /\ file_type = "CSV" /\ ~HeaderPass) =>
        LET row == InRecord
            out == OutRecord
            col == start_pos[1]
        IN  /\ Len(out) = Len(row)
            /\ \A k \in 1..Len(row) : k # col => out[k] = row[k]
            /\ Len(row) >= col =>
                   /\ text = row[col]
                   /\ CallReturned /\ Len(result.pieces) = Len(row[col])
                   /\ \A j \in 1..Len(row[col]) :
                          Some(result.pieces[j]) \in PiecesFor(row[col][j])
                   /\ out[col] = Flatten(result.pieces)
            /\ Len(row) < col => out = row /\ result = NoCall
C7_Witness ==
    /\ Wrote /\ file_type = "CSV" /\ ~HeaderPass
    /\ start_pos = Some(2) /\ end_pos = Some(1)
    /\ method = "simple" /\ data_type = "Both"
    /\ repChar = Some(<<"X">>) /\ repDig = Some(<<"9">>)
    /\ record = << <<"a">>, <<"a", "5">> >>
    /\ written = Some(<< <<"a">>, <<"X", "9">> >>)

\* C8: Incremental with Number emits for every ASCII digit d of its text the
\* digit (d + r) mod 10 for some r in 1..9: one digit, never d itself.
C8_IncrementalRotates ==
    (/\ pc = "returned" /\ CallReturned
     /\ method = "incremental" /\ data_type = "Number") =>
        \A j \in 1..Len(text) :
            Digit(text[j]) =>
                LET d == DigitValue[text[j]]
                    out == result.pieces[j]
                IN  /\ Len(out) = 1 /\ out[1] \in digits
                    /\ out[1] # text[j]
                    /\ \E r \in 1..9 : DigitValue[out[1]] = (d + r) % 10
C8_Witness ==
    /\ pc = "returned" /\ method = "incremental" /\ data_type = "Number"
    /\ text = <<"5">> /\ result = Returned(<< <<"8">> >>)

\* C9: every strategy emits unchanged a character outside the data-type
\* filter: the hyphen, a letter under Number, a digit under String.
C9_OutsideFilterUnchanged ==
    (pc = "returned" /\ CallReturned) =>
        \A j \in 1..Len(text) :
            (\/ text[j] = "-"
             \/ Letter(text[j]) /\ data_type = "Number"
             \/ Digit(text[j]) /\ data_type = "String") =>
                result.pieces[j] = <<text[j]>>
C9_Witness ==
    /\ pc = "returned" /\ method = "random" /\ data_type = "Number"
    /\ text = <<"a">> /\ result = Returned(<< <<"a">> >>)

\* C10: records are processed one at a time in input order: at the head of
\* the record loop one record has been written for each record read, in the
\* body (and after a pass that raised) the record read last is the only one
\* not written, never more than one, and a run that completes has written
\* as many records as it read. The record a pass
\* writes is made of the record that pass read and of nothing else: it is
\* that record, or a prefix and a suffix of the line around what the
\* strategy made of a part of the line, or the row with what the strategy
\* made of one field in that field's place.
C10_OneAtATime ==
    /\ pc = "loop" => nwritten = nread
    /\ pc = "body" => nread = nwritten + 1 /\ written = None
    /\ (pc = "responded" /\ status = 200) => nwritten = nread
    /\ (pc = "responded" /\ status # 200) =>
           \/ nread = 0 /\ nwritten = 0
           \/ nread = nwritten + 1 /\ written = None
    /\ Wrote =>
           LET rec == InRecord
               out == OutRecord
               n == Len(rec)
           IN  IF result = NoCall THEN out = rec
               ELSE /\ CallReturned
                    /\ IF file_type = "TXT"
                       THEN /\ \E a \in 0..n, b \in 0..n : text = SubSeq(rec, a + 1, b)
                            /\ \E a \in 0..n, b \in 0..n :
                                   out = SubSeq(rec, 1, a) \o Flatten(result.pieces)
                                             \o SubSeq(rec, b + 1, n)
                       ELSE \E k \in 1..n :
                                /\ text = rec[k]
                                /\ out = [rec EXCEPT ![k] = Flatten(result.pieces)]
C10_Witness ==
    /\ pc = "responded" /\ status = 200
    /\ nread = 2 /\ nwritten = 2
    /\ file_type = "TXT" /\ method = "random" /\ data_type = "Both"
    /\ start_pos = Some(1) /\ ~has_header
    /\ record = <<"a", "\n">> /\ written = Some(<<"Z", "\n">>)
====
